---- MODULE Spec2Model ----
(***************************************************************************)
(* Model of the RAG backend: FilesService (upload / background indexing /  *)
(* delete), RagService (indexFile, deleteFileIndex, searchDocuments,       *)
(* getStats), VectorStoreService (the ChromaDB collection adapter) and     *)
(* ChatService.sendMessage.                                                *)
(*                                                                         *)
(* Every await of the source is a step boundary: an operation that is      *)
(* suspended at an await is a process position (pc) in the state.  The     *)
(* metadata database (mongoose) and the disk are taken as reliable; the    *)
(* embedding provider, the text extractor and the vector-store backend     *)
(* fail nondeterministically.  A backend call succeeds iff the backend is  *)
(* reachable at the moment of the call (backendUp), and backendUp changes  *)
(* freely between steps.                                                   *)
(***************************************************************************)
EXTENDS Integers, FiniteSets, Sequences, TLC

\* ---------------------------------------------------------------- bounds
MaxChunks == 2
\* the largest number of vectors a provider response may carry
MaxVecs == MaxChunks + 1
\* the requests one embedder call may issue while the provider keeps
\* answering 503
MaxRequests == 3

\* ------------------------------------------------------------- constants
\* TOP_K_RESULTS default
TopK == 5

Files == {"f1", "f2"}
Providers == {"gemini", "openai", "huggingface"}
\* systemPrompt as read by sendMessage: "" stands for absent or empty
SysPrompts == {"", "S"}
LlmProviders == {"gemini", "custom", "other"}
NoFilter == "nofilter"

VARIABLES
  enabled,     \* RagService.enabled (RAG_ENABLED === 'true')
  provider,    \* EmbeddingService.provider
  hasKey,      \* credentials of the configured embedding provider present
  backendUp,   \* the ChromaDB backend is reachable
  collection,  \* VectorStoreService.collection is set
  store,       \* records held by the ChromaDB collection "documents"
  files,       \* metadata database: state of each file document
  disk,        \* the physical file exists
  uploadRes,   \* what uploadFile returned to its caller
  run,         \* the background indexing run of each file
  del,         \* the deleteFile call of each file
  probe,       \* the last searchDocuments / getStats call and its result
  chat,        \* the sendMessage call in progress
  emb,         \* an EmbeddingService call followed request by request
  gem,         \* a GeminiService.generateResponse call
  sim,         \* a store query answer and the SearchResults made of it
  chk,         \* a DocumentProcessorService.chunkText call
  hist,        \* a generateResponse call of a chat backend and its history
  adp          \* adapter operations in flight, initialize followed by await

\* the state of the services, and the calls followed on their own
sysVars == <<enabled, provider, hasKey, backendUp, collection, store, files,
             disk, uploadRes, run, del, probe, chat>>
units == <<emb, gem, sim, chk, hist, adp>>
vars == <<sysVars, units>>

\* a vector: the text it was computed from, and how it was obtained
\* ("model": returned by the provider's model, "fallback": computed by
\* fallbackEmbedding, "empty": an array of length 0, "missing": undefined)
Vec(of, kind) == [of |-> of, kind |-> kind]
\* the text of a query (chunk texts are numbered from 0 in reading order)
QueryText == -1
NoText == -2
NoVec == Vec(NoText, "missing")

\* a record of the collection: id, embedding, document and metadata
Record(id, vec, text, f, i) ==
  [id |-> id, vec |-> vec, text |-> text, fileId |-> f, chunkIndex |-> i]
\* the record of chunk i of file f as a complete run writes it; its id is
\* fileId_chunk_i
Rec(f, i) == Record(<<f, i>>, Vec(i, "model"), i, f, i)
RecsOf(st, f) == {r \in st : r.fileId = f}
Batch(f, n) == {Rec(f, i) : i \in 0..(n - 1)}

\* n: chunks extracted; m: vectors the embedder returned (-1: no answer);
\* vecs: those vectors; netfail: a request to the provider got no answer
NoRun == [pc |-> "none", n |-> 0, m |-> -1, err |-> "none", calls |-> {},
          vecs |-> <<>>, netfail |-> FALSE, blank |-> FALSE]
NoDel == [pc |-> "idle", ids |-> {}, idxErr |-> "none", res |-> "none",
          calls |-> {}]
\* vs: what the vector-store adapter answered (op "none": it was not called)
NoVs == [op |-> "none", ready |-> FALSE, up |-> FALSE, raised |-> FALSE,
         result |-> {}, count |-> 0]
\* q: the query vector handed to the store; netfail: the request for it
\* got no answer
NoProbe == [op |-> "none", filter |-> NoFilter, vs |-> NoVs, raised |-> FALSE,
            result |-> {}, count |-> 0, calls |-> {}, q |-> NoVec,
            netfail |-> FALSE]
\* an embedder call: requests issued so far, vectors gathered so far,
\* whether an answer was malformed or missing, and what the call returned
NoEmb == [pc |-> "idle", op |-> "none", n |-> 0, requests |-> 0,
          acc |-> <<>>, malformed |-> FALSE, netfail |-> FALSE,
          out |-> [ok |-> FALSE, n |-> 0, vecs |-> <<>>]]
\* a model name is the sequence of its segments between '/'; the empty
\* string has one empty segment
EmptyName == <<"">>
\* a generateResponse call: the available models as getAvailableModels
\* returned them, the candidates, the ones attempted so far and
\* the error message of each attempt (a message is the set of the marks it
\* contains), the last error (at most one), and the result
NoGem == [pc |-> "idle", model |-> EmptyName, available |-> <<>>,
          candidates |-> <<>>, tried |-> <<>>, errs |-> <<>>, lastError |-> <<>>,
          res |-> [status |-> "none", model |-> EmptyName, msg |-> {},
                   tag |-> "none"]]
\* the answer of collection.query (raw), what searchSimilar returns (docs)
\* and what searchDocuments returns (results)
NoSim == [pc |-> "idle", raw |-> <<>>, docs |-> <<>>, results |-> <<>>]
\* CHUNK_SIZE and CHUNK_OVERLAP defaults
ChunkSizeDefault == 1000
ChunkOverlapDefault == 200
\* a chunkText call: the text (a sequence of characters), the configured
\* sizes, the sentences splitIntoSentences returned and the chunks
NoChk == [pc |-> "idle", text |-> <<>>, chunkSize |-> ChunkSizeDefault,
          chunkOverlap |-> ChunkOverlapDefault, sentences |-> <<>>,
          chunks |-> <<>>]
\* no generateResponse call followed
NoHist == [pc |-> "idle", llm |-> "none", messages |-> <<>>, system |-> FALSE,
           recent |-> <<>>, body |-> <<>>, res |-> "none"]
\* the adapter operations followed await by await, and whether the
\* backend holds the collection "documents"
Ops == {"o1", "o2"}
NoOp == [pc |-> "idle", kind |-> "none", ran |-> FALSE, err |-> "none",
         result |-> {}, count |-> 0]
NoAdp == [ops |-> [o \in Ops |-> NoOp], exists |-> FALSE]
UnitsIdle ==
  /\ emb = NoEmb /\ gem = NoGem /\ sim = NoSim /\ chk = NoChk
  /\ hist = NoHist /\ adp = NoAdp

\* a system prompt: the caller's text, then (after a separator when the
\* text is not empty) the formatted documents
Prompt(base, sep, docs) == [base |-> base, sep |-> sep, docs |-> docs]
NoChat == [pc |-> "idle", useRag |-> FALSE, sys |-> "", hasUser |-> FALSE,
           llm |-> "gemini", calls |-> {}, retrievalFailed |-> FALSE,
           prompt |-> Prompt("", FALSE, {}), sources |-> {},
           llmOutcome |-> "none", sent |-> Prompt("", FALSE, {}),
           respSources |-> {}, res |-> "none"]

\* ------------------------------------------------- VectorStoreService
\* initialize(): the collection is obtained iff the backend is reachable;
\* a failure is swallowed and leaves the collection unset
initialize(up) == up

\* an adapter that never initializes again after onModuleInit
lazyInitOnce(col, up) == col

\* "if (!this.collection) await this.initialize()"
lazyInit(col, up) == IF col THEN TRUE ELSE initialize(up)

\* addDocuments that returns silently when the collection is not there
addDocumentsSilent(col, up, st, recs) ==
  LET c == lazyInit(col, up) IN
  IF ~c THEN [collection |-> c, err |-> "none", store |-> st]
  ELSE IF ~up THEN [collection |-> c, err |-> "call", store |-> st]
  ELSE [collection |-> c, err |-> "none", store |-> st \cup recs]

\* addDocuments(embeddings, documents, metadatas)
addDocuments(col, up, st, recs) ==
  LET c == lazyInit(col, up) IN
  IF ~c THEN [collection |-> c, err |-> "notinit", store |-> st]
  ELSE IF ~up THEN [collection |-> c, err |-> "call", store |-> st]
  ELSE [collection |-> c, err |-> "none", store |-> st \cup recs]

\* the records a query returns: at most k of the matching ones
queryResults(st, k, filter) ==
  LET match == IF filter = NoFilter THEN st ELSE RecsOf(st, filter) IN
  IF Cardinality(match) <= k THEN {match}
  ELSE {s \in SUBSET match : Cardinality(s) = k}

\* searchSimilar(queryEmbedding, topK, filter): the set of possible answers
searchSimilar(col, up, st, k, filter) ==
  LET c == lazyInit(col, up) IN
  IF ~c \/ ~up
  THEN {[collection |-> c, raised |-> FALSE, result |-> {}]}
  ELSE {[collection |-> c, raised |-> FALSE, result |-> r] :
          r \in queryResults(st, k, filter)}

\* getDocumentCount that rethrows what its try block caught
getDocumentCountRethrows(col, up, st) ==
  LET c == lazyInit(col, up) IN
  IF ~c \/ ~up THEN [collection |-> c, raised |-> TRUE, count |-> 0]
  ELSE [collection |-> c, raised |-> FALSE, count |-> Cardinality(st)]

\* getDocumentCount()
getDocumentCount(col, up, st) ==
  LET c == lazyInit(col, up) IN
  IF ~c \/ ~up THEN [collection |-> c, raised |-> FALSE, count |-> 0]
  ELSE [collection |-> c, raised |-> FALSE, count |-> Cardinality(st)]

\* a get that looks up the first chunk of the file only
deleteGetFirstChunk(col, up, st, f) ==
  LET c == lazyInit(col, up) IN
  IF ~c THEN [collection |-> c, err |-> "notinit", ids |-> {}]
  ELSE IF ~up THEN [collection |-> c, err |-> "call", ids |-> {}]
  ELSE [collection |-> c, err |-> "none",
        ids |-> {r \in RecsOf(st, f) : r.chunkIndex = 0}]

\* deleteDocumentsByFileId, first await: collection.get({where: {fileId}})
deleteGet(col, up, st, f) ==
  LET c == lazyInit(col, up) IN
  IF ~c THEN [collection |-> c, err |-> "notinit", ids |-> {}]
  ELSE IF ~up THEN [collection |-> c, err |-> "call", ids |-> {}]
  ELSE [collection |-> c, err |-> "none", ids |-> RecsOf(st, f)]

\* deleteDocumentsByFileId, second await: collection.delete({ids})
deleteIds(up, st, ids) ==
  IF ~up THEN [err |-> "call", store |-> st]
  ELSE [err |-> "none", store |-> st \ ids]

\* ---------------------------------------------------- EmbeddingService
\* outcome of a call that yields a list: it throws, or returns n items
Throw == [ok |-> FALSE, n |-> 0]
Items(n) == [ok |-> TRUE, n |-> n]

\* outcome of an embedder call: it throws, or returns the vectors vecs
VThrow == [ok |-> FALSE, n |-> 0, vecs |-> <<>>]
Vecs(vs) == [ok |-> TRUE, n |-> Len(vs), vecs |-> vs]

\* what the provider answers to the request for one text: a well-formed
\* vector, no HTTP answer, an answer without a vector, an empty vector
Responses == {"ok", "netfail", "missing", "empty"}
\* what the items of a batch answer may hold
ItemKinds == {"model", "missing", "empty"}
\* the answer to a batch request: its status and the items of data
BatchResponse(status, items) == [status |-> status, items |-> items]
\* the answers explored inside indexing runs and searches: well-formed
\* ones and network failures (malformed answers are explored on the
\* embedder itself, in SpecEmbed)
PipelineResponses == {"ok", "netfail"}
PipelineBatches ==
  {BatchResponse("netfail", <<>>)} \cup
  {BatchResponse("ok", [j \in 1..m |-> "model"]) : m \in 0..MaxVecs}

\* width of the vector fallbackEmbedding builds
FallbackDim == 384
\* length of the vectors the configured model returns: embedding-001,
\* text-embedding-3-small, BAAI/bge-small-en-v1.5
ModelDim(p) ==
  CASE p = "gemini" -> 768 [] p = "openai" -> 1536 [] OTHER -> 384
\* length of a vector (-1: there is no array)
Dim(p, v) ==
  CASE v.kind = "fallback" -> FallbackDim
    [] v.kind = "empty" -> 0
    [] v.kind = "missing" -> -1
    [] OTHER -> ModelDim(p)
\* fallbackEmbedding(text): computed from the text alone
fallbackEmbedding(t) == Vec(t, "fallback")

\* a generateGeminiEmbedding whose catch rethrows
generateGeminiEmbeddingRethrows(key, t, r) ==
  IF ~key THEN VThrow
  ELSE IF r = "ok" THEN Vecs(<<Vec(t, "model")>>)
  ELSE IF r = "empty" THEN Vecs(<<Vec(t, "empty")>>)
  ELSE VThrow

\* generateGeminiEmbedding(text), the provider answering r: everything the
\* try block throws, its own "Invalid embedding response" included, ends
\* in the catch that returns the fallback vector
generateGeminiEmbedding(key, t, r) ==
  IF ~key THEN VThrow
  ELSE IF r = "ok" THEN Vecs(<<Vec(t, "model")>>)
  ELSE IF r = "empty" THEN Vecs(<<Vec(t, "empty")>>)
  ELSE Vecs(<<fallbackEmbedding(t)>>)

\* generateOpenAIEmbedding(text): the catch rethrows
generateOpenAIEmbedding(key, t, r) ==
  IF ~key THEN VThrow
  ELSE IF r = "ok" THEN Vecs(<<Vec(t, "model")>>)
  ELSE IF r = "empty" THEN Vecs(<<Vec(t, "empty")>>)
  ELSE VThrow

\* generateHuggingFaceEmbedding(text), r being the answer that is not a
\* 503: an empty vector is refused, the catch rethrows
generateHuggingFaceEmbedding(key, t, r) ==
  IF ~key THEN VThrow
  ELSE IF r = "ok" THEN Vecs(<<Vec(t, "model")>>)
  ELSE VThrow

\* item j of a batch answer belongs to text j of the request
itemVecs(texts, items) ==
  [j \in 1..Len(items) |->
     Vec(IF j <= Len(texts) THEN texts[j] ELSE NoText, items[j])]

\* generateOpenAIEmbeddings(texts): data.map(item => item.embedding)
generateOpenAIEmbeddings(key, texts, b) ==
  IF ~key \/ b.status # "ok" THEN VThrow
  ELSE Vecs(itemVecs(texts, b.items))

\* generateHuggingFaceEmbeddings(texts): an answer without items throws
generateHuggingFaceEmbeddings(key, texts, b) ==
  IF ~key \/ b.status # "ok" \/ Len(b.items) = 0 THEN VThrow
  ELSE Vecs(itemVecs(texts, b.items))

\* the "for (const text of texts)" loop of generateEmbeddings, rs[i] being
\* the answer to the request for text i
RECURSIVE geminiLoop(_, _, _, _)
geminiLoop(key, texts, rs, acc) ==
  IF Len(acc) = Len(texts) THEN Vecs(acc)
  ELSE LET e == generateGeminiEmbedding(key, texts[Len(acc) + 1],
                                        rs[Len(acc) + 1])
       IN IF ~e.ok THEN VThrow
          ELSE geminiLoop(key, texts, rs, acc \o e.vecs)

\* generateEmbeddings(texts): gemini embeds text by text, openai and
\* huggingface send one batch request (answered by b)
generateEmbeddings(p, key, texts, rs, b) ==
  IF p = "gemini" THEN geminiLoop(key, texts, rs, <<>>)
  ELSE IF p = "openai" THEN generateOpenAIEmbeddings(key, texts, b)
  ELSE generateHuggingFaceEmbeddings(key, texts, b)

\* generateEmbedding(text), the provider answering r
generateEmbedding(p, key, t, r) ==
  IF p = "gemini" THEN generateGeminiEmbedding(key, t, r)
  ELSE IF p = "openai" THEN generateOpenAIEmbedding(key, t, r)
  ELSE generateHuggingFaceEmbedding(key, t, r)

\* ------------------------------------------ DocumentProcessorService
\* A string is the sequence of its characters.
\* Math.min
Min(a, b) == IF a <= b THEN a ELSE b

PunctChars == {".", "!", "?"}
SpaceChars == {" ", "\n", "\t"}
\* "s.trim().length === 0"
IsBlank(s) == \A i \in DOMAIN s : s[i] \in SpaceChars

RECURSIVE trimStart(_)
trimStart(s) ==
  IF s # <<>> /\ Head(s) \in SpaceChars THEN trimStart(Tail(s)) ELSE s
RECURSIVE trimEnd(_)
trimEnd(s) ==
  IF s # <<>> /\ s[Len(s)] \in SpaceChars
  THEN trimEnd(SubSeq(s, 1, Len(s) - 1)) ELSE s
trim(s) == trimEnd(trimStart(s))

\* the last position of the run of characters of set that starts at i
\* (i - 1 when there is none)
RECURSIVE runEnd(_, _, _)
runEnd(s, i, set) ==
  IF i <= Len(s) /\ s[i] \in set THEN runEnd(s, i + 1, set) ELSE i - 1

\* where a match of /[.!?]+[\s\n]+/ that starts at i ends (0: no match)
matchEnd(s, i) ==
  LET p == runEnd(s, i, PunctChars)
      w == runEnd(s, p + 1, SpaceChars)
  IN IF p >= i /\ w > p THEN w ELSE 0

\* text.split(/([.!?]+[\s\n]+)/): the pieces between the matches and the
\* matches themselves, from position from on, the scan being at i
RECURSIVE split(_, _, _)
split(s, from, i) ==
  IF i > Len(s) THEN <<SubSeq(s, from, Len(s))>>
  ELSE IF matchEnd(s, i) > 0
  THEN <<SubSeq(s, from, i - 1), SubSeq(s, i, matchEnd(s, i))>> \o
       split(s, matchEnd(s, i) + 1, matchEnd(s, i) + 1)
  ELSE split(s, from, i + 1)

\* ".filter(s => s.trim().length > 0)"
filterBlank(arr) == SelectSeq(arr, LAMBDA x : ~IsBlank(x))
\* "/[.!?]+/.test(s)"
hasPunct(x) == \E i \in DOMAIN x : x[i] \in PunctChars
\* ".map((s, i, arr) => ...)": an element that holds a mark and is not the
\* last one gets the next element appended
joinNext(arr) ==
  [i \in DOMAIN arr |->
     IF i < Len(arr) /\ hasPunct(arr[i]) THEN arr[i] \o arr[i + 1]
     ELSE arr[i]]

\* splitIntoSentences(text)
splitIntoSentences(text) ==
  LET sentences == filterBlank(joinNext(filterBlank(split(text, 1, 1))))
  IN IF Len(sentences) = 0 THEN <<text>> ELSE sentences

\* the loop of getOverlapText: the first index at or below i (counted from
\* 0) that holds a mark; -1 when there is none
RECURSIVE scanBack(_, _)
scanBack(chunk, i) ==
  IF i < 0 THEN 0 - 1
  ELSE IF i < Len(chunk) /\ chunk[i + 1] \in PunctChars THEN i
  ELSE scanBack(chunk, i - 1)

\* getOverlapText(chunk, overlapSize)
getOverlapText(chunk, overlapSize) ==
  IF Len(chunk) <= overlapSize THEN chunk
  ELSE LET overlapStart == Len(chunk) - overlapSize
           found == scanBack(chunk, overlapStart)
           start == IF found >= 0 THEN found + 1 ELSE overlapStart
       IN trim(SubSeq(chunk, start + 1, Len(chunk)))

\* a chunk; carried is the overlap text its content began with
Chunk(content, chunkIndex, startChar, endChar, carried) ==
  [content |-> content, chunkIndex |-> chunkIndex, startChar |-> startChar,
   endChar |-> endChar, carried |-> carried]

\* one turn of a loop that never closes a chunk
chunkStepNeverCloses(st, sentence, chunkSize, chunkOverlap) ==
  [st EXCEPT !.currentChunk =
               @ \o (IF @ # <<>> THEN <<" ">> ELSE <<>>) \o sentence,
             !.startChar = @ + Len(sentence) + 1]

\* one turn of the loop of chunkText
chunkStep(st, sentence, chunkSize, chunkOverlap) ==
  LET potentialChunk ==
        st.currentChunk \o
        (IF st.currentChunk # <<>> THEN <<" ">> ELSE <<>>) \o sentence
      grow(cur) == Len(sentence) + (IF Len(cur) > Len(sentence) THEN 1 ELSE 0)
  IN IF Len(potentialChunk) > chunkSize /\ Len(st.currentChunk) > 0
     THEN LET overlapText == getOverlapText(st.currentChunk, chunkOverlap)
              cur == overlapText \o sentence
          IN [chunks |-> Append(st.chunks,
                Chunk(trim(st.currentChunk), st.chunkIndex,
                      st.currentStartChar,
                      st.startChar + Len(st.currentChunk), st.carried)),
              currentChunk |-> cur,
              chunkIndex |-> st.chunkIndex + 1,
              currentStartChar |->
                st.startChar + Len(cur) - Len(overlapText) - Len(sentence),
              carried |-> overlapText,
              startChar |-> st.startChar + grow(cur)]
     ELSE [st EXCEPT !.currentChunk = potentialChunk,
                     !.startChar = @ + grow(potentialChunk)]

RECURSIVE chunkLoop(_, _, _, _, _)
chunkLoop(st, sentences, i, chunkSize, chunkOverlap) ==
  IF i > Len(sentences) THEN st
  ELSE chunkLoop(chunkStep(st, sentences[i], chunkSize, chunkOverlap),
                 sentences, i + 1, chunkSize, chunkOverlap)

\* the locals of chunkText before its loop
chunkStart ==
  [chunks |-> <<>>, currentChunk |-> <<>>, chunkIndex |-> 0,
   currentStartChar |-> 0, carried |-> <<>>, startChar |-> 0]

\* "if (currentChunk.trim().length > 0) chunks.push(...)" after the loop
lastChunk(st) ==
  IF ~IsBlank(st.currentChunk)
  THEN Append(st.chunks,
         Chunk(trim(st.currentChunk), st.chunkIndex, st.currentStartChar,
               st.startChar, st.carried))
  ELSE st.chunks

\* a chunkText that cuts every sentence down to chunkSize characters
chunkTextTruncates(text, chunkSize, chunkOverlap) ==
  IF IsBlank(text) THEN <<>>
  ELSE LET sentences == splitIntoSentences(text)
           cut == [k \in DOMAIN sentences |->
                     SubSeq(sentences[k], 1, Min(Len(sentences[k]), chunkSize))]
       IN lastChunk(chunkLoop(chunkStart, cut, 1, chunkSize, chunkOverlap))

\* chunkText(text)
chunkText(text, chunkSize, chunkOverlap) ==
  IF IsBlank(text) THEN <<>>
  ELSE lastChunk(chunkLoop(chunkStart, splitIntoSentences(text), 1,
                           chunkSize, chunkOverlap))

\* ------------------------------------------------------------------ Init
\* A file is either not uploaded yet, or was uploaded (and possibly indexed
\* with k records) in an earlier lifetime of the process.
Init ==
  /\ enabled \in BOOLEAN
  /\ provider \in Providers
  /\ hasKey \in BOOLEAN
  /\ backendUp \in BOOLEAN
  /\ collection = initialize(backendUp)   \* onModuleInit
  /\ \E k \in [Files -> -1..MaxChunks] :
       /\ store = UNION {Batch(f, k[f]) : f \in {g \in Files : k[g] > 0}}
       /\ files = [f \in Files |-> IF k[f] >= 0 THEN "saved" ELSE "none"]
       /\ disk = [f \in Files |-> k[f] >= 0]
  /\ uploadRes = [f \in Files |-> "none"]
  /\ run = [f \in Files |-> NoRun]
  /\ del = [f \in Files |-> NoDel]
  /\ probe = NoProbe
  /\ chat = NoChat
  /\ UnitsIdle

\* --------------------------------------------------------- FilesService
\* an uploadFile that awaits the indexing run before it answers
uploadFileAwaitsIndexing(en, mimeOk) ==
  [res |-> IF mimeOk /\ en THEN "none" ELSE "saved",
   run |-> IF mimeOk /\ en THEN [NoRun EXCEPT !.pc = "extract"]
           ELSE [NoRun EXCEPT !.pc = "skipped"]]

\* uploadFile after "await fileDoc.save()": the indexing run is started and
\* not awaited, savedFile is returned.  indexFileForRag runs synchronously
\* up to its first await: the mimetype test, then indexFile's enabled test.
uploadFile(en, mimeOk) ==
  [res |-> "saved",
   run |-> IF mimeOk /\ en THEN [NoRun EXCEPT !.pc = "extract"]
           ELSE [NoRun EXCEPT !.pc = "skipped"]]

\* an indexing error that reaches the caller of uploadFile
indexFileForRagRethrows(res, err) == "error"

\* the catch of indexFileForRag (and the .catch of uploadFile): the error
\* is logged, the response of the upload is what it was
indexFileForRagCatch(res, err) == res

UploadFile(f, mimeOk) ==
  /\ files[f] = "none"
  /\ LET u == uploadFile(enabled, mimeOk) IN
       /\ uploadRes' = [uploadRes EXCEPT ![f] = u.res]
       /\ run' = [run EXCEPT ![f] = u.run]
  /\ files' = [files EXCEPT ![f] = "saved"]
  /\ disk' = [disk EXCEPT ![f] = TRUE]
  /\ UNCHANGED units
  /\ UNCHANGED <<enabled, provider, hasKey, backendUp, collection, store,
                 del, probe, chat>>

\* the run of file f ends with error err
IndexFail(f, r, err) ==
  /\ run' = [run EXCEPT ![f] = [r EXCEPT !.pc = "failed", !.err = err]]
  /\ uploadRes' = [uploadRes EXCEPT
                     ![f] = indexFileForRagCatch(uploadRes[f], err)]

\* texts extractTextFromFile returns for a document without words
BlankTexts == {<<>>, <<" ">>, <<"\n", " ", "\t">>}
\* "return this.chunkText(text)" for such a text, under the default sizes
chunkBlank(text) ==
  [out |-> Items(Len(chunkText(text, ChunkSizeDefault, ChunkOverlapDefault))),
   blank |-> IsBlank(text)]

\* processFile(filePath, mimetype): reading a file that is gone throws, a
\* parser may throw, otherwise chunkText returns the chunks of the text:
\* those of a text without words, or 1..MaxChunks chunks (the last buffer
\* of a text with words is not blank, so it is pushed)
processFile(onDisk) ==
  IF onDisk
  THEN {[out |-> Throw, blank |-> FALSE]} \cup
       {chunkBlank(text) : text \in BlankTexts} \cup
       {[out |-> Items(n), blank |-> FALSE] : n \in 1..MaxChunks}
  ELSE {[out |-> Throw, blank |-> FALSE]}

\* an indexFile that goes on to the embedder with no chunks
afterChunksAlwaysEmbeds(n) == "embed"

\* "if (chunks.length === 0) return"
afterChunks(n) == IF n = 0 THEN "done" ELSE "embed"

\* indexFile step 1: documentProcessor.processFile (extract + chunk)
ProcessFile(f) ==
  /\ run[f].pc = "extract"
  /\ LET r == [run[f] EXCEPT !.calls = @ \cup {"chunker"}] IN
     \E o \in processFile(disk[f]) :
       IF ~o.out.ok THEN IndexFail(f, r, "extract")
       ELSE /\ run' = [run EXCEPT ![f] =
                        [r EXCEPT !.pc = afterChunks(o.out.n),
                                  !.n = o.out.n, !.blank = o.blank]]
            /\ UNCHANGED uploadRes
  /\ UNCHANGED units
  /\ UNCHANGED <<enabled, provider, hasKey, backendUp, collection, store,
                 files, disk, del, probe, chat>>

\* an indexFile without the count check
checkEmbeddingsSkipped(n, m) == "none"

\* what indexFile does with the m vectors it got for n chunks
checkEmbeddings(n, m) == IF m # n THEN "mismatch" ELSE "none"

\* the chunks chunkText returns for a text of n chunks, in reading order:
\* chunk number i holds text i and the chunkIndex the counter gave it
Chunks(n) == [i \in 1..n |-> [content |-> i - 1, chunkIndex |-> i - 1]]

\* a chunkTexts that lists the chunks last to first
chunkTextsReversed(chunks) ==
  [i \in 1..Len(chunks) |-> chunks[Len(chunks) + 1 - i].content]

\* "const chunkTexts = chunks.map(chunk => chunk.content)"
chunkTexts(chunks) == [i \in 1..Len(chunks) |-> chunks[i].content]

\* "const metadatas = chunks.map((chunk) => ({fileId, ..., chunkIndex}))"
metadatas(f, chunks) ==
  [i \in 1..Len(chunks) |->
     [fileId |-> f, chunkIndex |-> chunks[i].chunkIndex]]

\* a request of this call got no answer from the provider
netFailed(p, key, rs, b) ==
  /\ key
  /\ IF p = "gemini" THEN \E i \in DOMAIN rs : rs[i] = "netfail"
     ELSE b.status = "netfail"

\* the answers the provider may give during generateEmbeddings of n
\* texts: one per text under gemini, one batch answer otherwise
textAnswers(p, n) ==
  IF p = "gemini" THEN [1..n -> PipelineResponses] ELSE {<<>>}
batchAnswers(p) ==
  IF p = "gemini" THEN {BatchResponse("ok", <<>>)} ELSE PipelineBatches

\* indexFile step 2: embeddingService.generateEmbeddings + the count check
EmbedChunks(f) ==
  /\ run[f].pc = "embed"
  /\ \E rs \in textAnswers(provider, run[f].n),
        b \in batchAnswers(provider) :
       LET r == [run[f] EXCEPT
                   !.calls = @ \cup {"embedder"},
                   !.netfail = netFailed(provider, hasKey, rs, b)]
           o == generateEmbeddings(provider, hasKey,
                                   chunkTexts(Chunks(run[f].n)), rs, b)
       IN IF ~o.ok THEN IndexFail(f, r, "embed")
          ELSE IF checkEmbeddings(r.n, o.n) # "none"
          THEN IndexFail(f, [r EXCEPT !.m = o.n],
                         checkEmbeddings(r.n, o.n))
          ELSE /\ run' = [run EXCEPT ![f] =
                           [r EXCEPT !.pc = "store", !.m = o.n,
                                     !.vecs = o.vecs]]
               /\ UNCHANGED uploadRes
  /\ UNCHANGED units
  /\ UNCHANGED <<enabled, provider, hasKey, backendUp, collection, store,
                 files, disk, del, probe, chat>>

\* the records of "collection.add({ids, embeddings, documents,
\* metadatas})", ids being fileId_chunk_chunkIndex of the metadata at the
\* same position
addRecords(embeddings, documents, metas) ==
  {Record(<<metas[i].fileId, metas[i].chunkIndex>>, embeddings[i],
          documents[i], metas[i].fileId, metas[i].chunkIndex) :
     i \in 1..Len(embeddings)}

\* indexFile step 4: vectorStore.addDocuments(embeddings, chunkTexts,
\* metadatas)
StoreChunks(f) ==
  /\ run[f].pc = "store"
  /\ LET r == [run[f] EXCEPT !.calls = @ \cup {"store"}]
         chunks == Chunks(run[f].n)
         a == addDocuments(collection, backendUp, store,
                           addRecords(run[f].vecs, chunkTexts(chunks),
                                      metadatas(f, chunks)))
     IN /\ collection' = a.collection
        /\ store' = a.store
        /\ IF a.err # "none" THEN IndexFail(f, r, a.err)
           ELSE /\ run' = [run EXCEPT ![f] = [r EXCEPT !.pc = "done"]]
                /\ UNCHANGED uploadRes
  /\ UNCHANGED units
  /\ UNCHANGED <<enabled, provider, hasKey, backendUp, files, disk, del,
                 probe, chat>>

\* deleteFile(id), "await this.getFileById(id)": NotFoundException when the
\* file is unknown; then deleteFileIndex, which returns at once when RAG is
\* disabled
DeleteFileStart(f) ==
  /\ \/ del[f].pc = "idle"
     \/ del[f].pc = "done" /\ del[f].res = "notfound"
  /\ del' = [del EXCEPT ![f] =
       IF files[f] # "saved"
       THEN [NoDel EXCEPT !.pc = "done", !.res = "notfound"]
       ELSE [NoDel EXCEPT !.pc = IF enabled THEN "get" ELSE "finish"]]
  /\ UNCHANGED units
  /\ UNCHANGED <<enabled, provider, hasKey, backendUp, collection, store,
                 files, disk, uploadRes, run, probe, chat>>

\* deleteFileIndex -> deleteDocumentsByFileId, up to the answer of get; an
\* error is rethrown by both and caught by deleteFile
DeleteGet(f) ==
  /\ del[f].pc = "get"
  /\ LET g == deleteGet(collection, backendUp, store, f)
         d == [del[f] EXCEPT !.calls = @ \cup {"store"}]
     IN /\ collection' = g.collection
        /\ del' = [del EXCEPT ![f] =
             IF g.err # "none" THEN [d EXCEPT !.pc = "finish", !.idxErr = g.err]
             ELSE IF g.ids = {} THEN [d EXCEPT !.pc = "finish"]
             ELSE [d EXCEPT !.pc = "del", !.ids = g.ids]]
  /\ UNCHANGED units
  /\ UNCHANGED <<enabled, provider, hasKey, backendUp, store, files, disk,
                 uploadRes, run, probe, chat>>

\* deleteDocumentsByFileId, the answer of collection.delete
DeleteIds(f) ==
  /\ del[f].pc = "del"
  /\ LET x == deleteIds(backendUp, store, del[f].ids) IN
       /\ store' = x.store
       /\ del' = [del EXCEPT ![f] = [@ EXCEPT !.pc = "finish",
                                              !.idxErr = x.err]]
  /\ UNCHANGED units
  /\ UNCHANGED <<enabled, provider, hasKey, backendUp, collection, files,
                 disk, uploadRes, run, probe, chat>>

\* a deleteFile that lets the error of deleteFileIndex through
deleteFileRethrows(idxErr) == IF idxErr # "none" THEN "raise" ELSE "continue"

\* the catch around deleteFileIndex in deleteFile: logged, deletion goes on
deleteFileCatch(idxErr) == "continue"

\* deleteFile after the index cleanup: unlink the physical file, delete the
\* metadata record
DeleteFinish(f) ==
  /\ del[f].pc = "finish"
  /\ IF deleteFileCatch(del[f].idxErr) = "continue"
     THEN /\ disk' = [disk EXCEPT ![f] = FALSE]
          /\ files' = [files EXCEPT ![f] = "deleted"]
          /\ del' = [del EXCEPT ![f] = [@ EXCEPT !.pc = "done", !.res = "ok"]]
     ELSE /\ del' = [del EXCEPT ![f] = [@ EXCEPT !.pc = "done",
                                                 !.res = "error"]]
          /\ UNCHANGED <<disk, files>>
  /\ UNCHANGED units
  /\ UNCHANGED <<enabled, provider, hasKey, backendUp, collection, store,
                 uploadRes, run, probe, chat>>

\* ----------------------------------------------------------- RagService
\* searchDocuments(query, filter): the possible outcomes.  failed: the
\* query embedding threw, or the store was unavailable or its call failed
searchDocuments(en, p, key, col, up, st, filter) ==
  IF ~en
  THEN {[collection |-> col, vs |-> NoVs, raised |-> FALSE, failed |-> FALSE,
         result |-> {}, calls |-> {}, q |-> NoVec, netfail |-> FALSE]}
  ELSE UNION {
    LET e == generateEmbedding(p, key, QueryText, r)
        nf == key /\ r = "netfail"
    IN IF ~e.ok
       THEN {[collection |-> col, vs |-> NoVs, raised |-> FALSE,
              failed |-> TRUE, result |-> {}, calls |-> {"embedder"},
              q |-> NoVec, netfail |-> nf]}
       ELSE {[collection |-> a.collection,
              vs |-> [op |-> "query", ready |-> a.collection, up |-> up,
                      raised |-> a.raised, result |-> a.result, count |-> 0],
              raised |-> FALSE,
              failed |-> ~a.collection \/ ~up \/ a.raised,
              result |-> IF a.raised THEN {} ELSE a.result,
              calls |-> {"embedder", "store"},
              q |-> e.vecs[1], netfail |-> nf] :
               a \in searchSimilar(col, up, st, TopK, filter)}
    : r \in PipelineResponses}

\* getStats without the enabled test
getStatsUngated(en, col, up, st) ==
  LET c == getDocumentCount(col, up, st) IN
  [collection |-> c.collection,
   vs |-> [op |-> "count", ready |-> c.collection, up |-> up,
           raised |-> c.raised, result |-> {}, count |-> c.count],
   count |-> IF c.raised THEN 0 ELSE c.count,
   calls |-> {"store"}]

\* getStats()
getStats(en, col, up, st) ==
  IF ~en
  THEN [collection |-> col, vs |-> NoVs, count |-> 0, calls |-> {}]
  ELSE LET c == getDocumentCount(col, up, st) IN
       [collection |-> c.collection,
        vs |-> [op |-> "count", ready |-> c.collection, up |-> up,
                raised |-> c.raised, result |-> {}, count |-> c.count],
        count |-> IF c.raised THEN 0 ELSE c.count,
        calls |-> {"store"}]

\* a caller invokes searchDocuments(query, {fileId: filter})
RagSearch(filter) ==
  /\ \E o \in searchDocuments(enabled, provider, hasKey, collection,
                               backendUp, store, filter) :
       /\ collection' = o.collection
       /\ probe' = [op |-> "search", filter |-> filter, vs |-> o.vs,
                    raised |-> o.raised, result |-> o.result, count |-> 0,
                    calls |-> o.calls, q |-> o.q, netfail |-> o.netfail]
  /\ UNCHANGED units
  /\ UNCHANGED <<enabled, provider, hasKey, backendUp, store, files, disk,
                 uploadRes, run, del, chat>>

\* a caller invokes getStats()
RagStats ==
  /\ LET o == getStats(enabled, collection, backendUp, store) IN
       /\ collection' = o.collection
       /\ probe' = [op |-> "stats", filter |-> NoFilter, vs |-> o.vs,
                    raised |-> FALSE, result |-> {}, count |-> o.count,
                    calls |-> o.calls, q |-> NoVec, netfail |-> FALSE]
  /\ UNCHANGED units
  /\ UNCHANGED <<enabled, provider, hasKey, backendUp, store, files, disk,
                 uploadRes, run, del, chat>>

\* the backend becomes unreachable, or reachable again
BackendToggle ==
  /\ backendUp' = ~backendUp
  /\ UNCHANGED units
  /\ UNCHANGED <<enabled, provider, hasKey, collection, store, files, disk,
                 uploadRes, run, del, probe, chat>>

\* ---------------------------------------------------------- ChatService
\* a gate that ignores the request's useRag
ragGateIgnoresRequest(useRag, en) == en

\* "if (useRag && this.ragService.isEnabled())"
ragGate(useRag, en) == useRag /\ en

\* a prompt that is extended whatever the search returned
enhancePromptAlways(sys, results) == Prompt(sys, sys # "", results)

\* the system prompt after the search: extended only
\* "if (searchResults.length > 0)"
enhancePrompt(sys, results) ==
  IF results # {} THEN Prompt(sys, sys # "", results)
  ELSE Prompt(sys, FALSE, {})

\* sendMessage up to its first await: searchDocuments when retrieval is
\* gated in and the history has a user message, otherwise the LLM backend
ChatStart(useRag, sys, hasUser, llm) ==
  /\ chat.pc \in {"idle", "done"}
  /\ chat' = [NoChat EXCEPT
       !.useRag = useRag, !.sys = sys, !.hasUser = hasUser, !.llm = llm,
       !.prompt = Prompt(sys, FALSE, {}),
       !.pc = IF ragGate(useRag, enabled) /\ hasUser THEN "search"
              ELSE "llm"]
  /\ UNCHANGED units
  /\ UNCHANGED <<enabled, provider, hasKey, backendUp, collection, store,
                 files, disk, uploadRes, run, del, probe>>

\* sendMessage, the answer of searchDocuments (an error is caught, the
\* prompt and the sources stay as they were)
ChatSearch ==
  /\ chat.pc = "search"
  /\ \E o \in searchDocuments(enabled, provider, hasKey, collection,
                               backendUp, store, NoFilter) :
       /\ collection' = o.collection
       /\ chat' = [chat EXCEPT
            !.pc = "llm",
            !.calls = o.calls,
            !.retrievalFailed = o.failed,
            !.prompt = IF o.raised THEN @ ELSE enhancePrompt(chat.sys, o.result),
            !.sources = IF o.raised THEN @ ELSE o.result]
  /\ UNCHANGED units
  /\ UNCHANGED <<enabled, provider, hasKey, backendUp, store, files, disk,
                 uploadRes, run, del, probe>>

\* sendMessage, the LLM backend: an unsupported provider throws, an error
\* of generateResponse propagates, otherwise the response is returned with
\* the sources when there are any
ChatGenerate ==
  /\ chat.pc = "llm"
  /\ \E ok \in BOOLEAN :
       chat' = [chat EXCEPT
         !.pc = "done",
         !.llmOutcome = IF chat.llm \notin {"gemini", "custom"}
                        THEN "unsupported"
                        ELSE IF ok THEN "ok" ELSE "error",
         !.sent = IF chat.llm \in {"gemini", "custom"} THEN chat.prompt
                  ELSE @,
         !.respSources = IF chat.llm \in {"gemini", "custom"} /\ ok
                         THEN chat.sources ELSE {},
         !.res = IF chat.llm \in {"gemini", "custom"} /\ ok THEN "ok"
                 ELSE "error"]
  /\ UNCHANGED units
  /\ UNCHANGED <<enabled, provider, hasKey, backendUp, collection, store,
                 files, disk, uploadRes, run, del, probe>>

\* -------------------------------------------------------- specifications
\* uploads, background indexing runs and deletions of all files
Next ==
  \/ \E f \in Files, mimeOk \in BOOLEAN : UploadFile(f, mimeOk)
  \/ \E f \in Files : ProcessFile(f)
  \/ \E f \in Files : EmbedChunks(f)
  \/ \E f \in Files : StoreChunks(f)
  \/ \E f \in Files : DeleteFileStart(f)
  \/ \E f \in Files : DeleteGet(f)
  \/ \E f \in Files : DeleteIds(f)
  \/ \E f \in Files : DeleteFinish(f)
  \/ BackendToggle

Spec == Init /\ [][Next]_vars

\* searchDocuments and getStats calls next to the upload, indexing and
\* deletion of one file (the other file is a document of an earlier
\* lifetime, or absent)
ActiveFiles == {"f1"}

NextProbe ==
  \/ \E f \in ActiveFiles, mimeOk \in BOOLEAN : UploadFile(f, mimeOk)
  \/ \E f \in ActiveFiles : ProcessFile(f)
  \/ \E f \in ActiveFiles : EmbedChunks(f)
  \/ \E f \in ActiveFiles : StoreChunks(f)
  \/ \E f \in ActiveFiles : DeleteFileStart(f)
  \/ \E f \in ActiveFiles : DeleteGet(f)
  \/ \E f \in ActiveFiles : DeleteIds(f)
  \/ \E f \in ActiveFiles : DeleteFinish(f)
  \/ \E filter \in Files \cup {NoFilter} : RagSearch(filter)
  \/ RagStats
  \/ BackendToggle

SpecProbe == Init /\ [][NextProbe]_vars

\* chat turns over the documents of an earlier lifetime
NextChat ==
  \/ \E useRag \in BOOLEAN, sys \in SysPrompts, hasUser \in BOOLEAN,
        llm \in LlmProviders : ChatStart(useRag, sys, hasUser, llm)
  \/ ChatSearch
  \/ ChatGenerate
  \/ BackendToggle

SpecChat == Init /\ [][NextChat]_vars

\* ------------------------------------- EmbeddingService, call by call
\* One call of generateEmbedding (op "single") or generateEmbeddings (op
\* "batch", n texts) is followed from request to request; nothing else
\* runs.
Quiet ==
  /\ enabled = FALSE /\ backendUp = FALSE /\ collection = FALSE
  /\ store = {}
  /\ files = [f \in Files |-> "none"]
  /\ disk = [f \in Files |-> FALSE]
  /\ uploadRes = [f \in Files |-> "none"]
  /\ run = [f \in Files |-> NoRun]
  /\ del = [f \in Files |-> NoDel]
  /\ probe = NoProbe
  /\ chat = NoChat

InitEmbed ==
  /\ Quiet
  /\ provider \in Providers
  /\ hasKey \in BOOLEAN
  /\ UnitsIdle

\* every answer a provider may give to one request
AllResponses == Responses \cup {"503"}
AllBatches ==
  {BatchResponse(st, <<>>) : st \in {"netfail", "missing", "503"}} \cup
  {BatchResponse("ok", items) :
     items \in UNION {[1..m -> ItemKinds] : m \in 0..MaxVecs}}

\* the catch of generateHuggingFaceEmbedding(s): "if (error.response?.
\* status === 503)" waits 10 s and calls the same function again
retryOn503(p, status) == p = "huggingface" /\ status = "503"

\* the call starts: without credentials it throws before any request,
\* otherwise it issues its first request
EmbedCall(op, n) ==
  /\ emb.pc = "idle"
  /\ emb' = IF ~hasKey
            THEN [NoEmb EXCEPT !.pc = "done", !.op = op, !.n = n]
            ELSE [NoEmb EXCEPT !.pc = "request", !.op = op, !.n = n,
                               !.requests = 1]
  /\ UNCHANGED <<sysVars, gem, sim, chk, hist, adp>>

\* the answer to a request for one text (generateEmbedding, or one turn of
\* the gemini loop of generateEmbeddings)
EmbedAnswer(r) ==
  /\ emb.pc = "request"
  /\ emb.op = "single" \/ provider = "gemini"
  /\ LET t == IF emb.op = "single" THEN QueryText ELSE Len(emb.acc)
         e == generateEmbedding(provider, hasKey, t, r)
         d == [emb EXCEPT !.malformed = @ \/ r \in {"missing", "empty"},
                          !.netfail = @ \/ r = "netfail"]
     IN IF retryOn503(provider, r)
        THEN /\ emb.requests < MaxRequests
             /\ emb' = [emb EXCEPT !.pc = "wait"]
        ELSE IF ~e.ok
        THEN emb' = [d EXCEPT !.pc = "done", !.out = VThrow]
        ELSE IF Len(emb.acc) + 1 = emb.n
        THEN emb' = [d EXCEPT !.pc = "done", !.acc = @ \o e.vecs,
                              !.out = Vecs(emb.acc \o e.vecs)]
        ELSE emb' = [d EXCEPT !.acc = @ \o e.vecs, !.requests = @ + 1]
  /\ UNCHANGED <<sysVars, gem, sim, chk, hist, adp>>

\* the answer to the batch request of generateOpenAIEmbeddings or
\* generateHuggingFaceEmbeddings
EmbedAnswerBatch(b) ==
  /\ emb.pc = "request"
  /\ emb.op = "batch" /\ provider # "gemini"
  /\ LET texts == [i \in 1..emb.n |-> i - 1]
         e == generateEmbeddings(provider, hasKey, texts, <<>>, b)
         d == [emb EXCEPT
                 !.malformed = \/ b.status = "missing"
                               \/ \E j \in DOMAIN b.items :
                                    b.items[j] \in {"missing", "empty"},
                 !.netfail = b.status = "netfail"]
     IN IF retryOn503(provider, b.status)
        THEN /\ emb.requests < MaxRequests
             /\ emb' = [emb EXCEPT !.pc = "wait"]
        ELSE emb' = [d EXCEPT !.pc = "done", !.acc = e.vecs, !.out = e]
  /\ UNCHANGED <<sysVars, gem, sim, chk, hist, adp>>

\* the 10 s timer fires: the function calls itself, a new request goes out
EmbedRetry ==
  /\ emb.pc = "wait"
  /\ emb' = [emb EXCEPT !.pc = "request", !.requests = @ + 1]
  /\ UNCHANGED <<sysVars, gem, sim, chk, hist, adp>>

NextEmbed ==
  \/ \E n \in 1..MaxChunks : EmbedCall("batch", n)
  \/ EmbedCall("single", 1)
  \/ \E r \in AllResponses : EmbedAnswer(r)
  \/ \E b \in AllBatches : EmbedAnswerBatch(b)
  \/ EmbedRetry

SpecEmbed == InitEmbed /\ [][NextEmbed]_vars

\* --------------------------------------------------------- GeminiService
\* toFlatName(name)
toFlatName(name) ==
  IF name = EmptyName THEN name
  ELSE IF Len(name) > 1 THEN <<name[Len(name)]>>
  ELSE name

\* the known-good defaults of buildFallbackOrder
preferredOrder ==
  << <<"gemini-2.5-flash">>, <<"gemini-2.0-flash">>,
     <<"gemini-2.0-flash-lite">> >>

\* "ordered.filter(...)": falsy names and names seen before are dropped
RECURSIVE uniq(_, _)
uniq(ordered, seen) ==
  IF ordered = <<>> THEN <<>>
  ELSE LET n == Head(ordered) IN
       IF n = EmptyName \/ n \in seen THEN uniq(Tail(ordered), seen)
       ELSE <<n>> \o uniq(Tail(ordered), seen \cup {n})

\* the list before filtering: preferred, defaults, available (flattened)
orderedNames(preferred, available) ==
  <<toFlatName(preferred)>> \o preferredOrder \o
  [i \in 1..Len(available) |-> toFlatName(available[i])]

\* a fallback order that tries the defaults before the requested model
buildFallbackOrderDefaultsFirst(preferred, available) ==
  uniq(preferredOrder \o <<toFlatName(preferred)>> \o
       [i \in 1..Len(available) |-> toFlatName(available[i])], {})

\* buildFallbackOrder(preferred, available)
buildFallbackOrder(preferred, available) ==
  uniq(orderedNames(preferred, available), {})

\* getAvailableModels(): the listed models, or two defaults when the
\* listing failed
getAvailableModels(ok, listed) ==
  IF ok THEN listed
  ELSE << <<"gemini-2.5-flash">>, <<"gemini-2.0-flash">> >>

\* the marks isRetriableError looks for in the lowercased message
RetriableMarks ==
  {"429", "too many requests", "resource exhausted", "rate", "quota",
   "unavailable", "overloaded", "timeout", "timed out", "502", "503", "504"}
\* a classification that knows the 429 answers only
isRetriableErrorOnly429(msg) == "429" \in msg

isRetriableError(msg) == msg \cap RetriableMarks # {}
\* "msg.includes('404') || msg.toLowerCase().includes('not found')"
isNotFound(msg) == msg \cap {"404", "not found"} # {}

\* a loop that goes on to the next candidate whatever the error
breaksLoopNever(msg) == FALSE

\* "if (!(isNotFound || this.isRetriableError(err))) break"
breaksLoop(msg) == ~(isNotFound(msg) \/ isRetriableError(msg))

\* the names a caller may request, and the models the listing may return
RequestedModels ==
  {EmptyName, <<"gemini-2.0-flash">>, <<"models", "gemini-pro">>,
   <<"gemini-exp">>}
ListedModels == {<<"models", "gemini-2.0-flash">>, <<"models", "gemini-pro">>}
MaxListed == 2
\* the error messages a candidate may fail with
ErrMsgs ==
  {{"404"}, {"429"}, {"500"}, {"400"}, {"503"}, {"timeout"}, {"quota"}}

InitGemini ==
  /\ Quiet
  /\ provider = "gemini"
  /\ hasKey = TRUE
  /\ UnitsIdle

\* generateResponse(model, ...) up to "await this.getAvailableModels()"
GenStart(model) ==
  /\ gem.pc = "idle"
  /\ gem' = [NoGem EXCEPT !.pc = "list", !.model = model]
  /\ UNCHANGED <<sysVars, emb, sim, chk, hist, adp>>

\* the outer catch of generateResponse: the error is wrapped in an
\* InternalServerErrorException whose text starts with the provider tag
wrapError(msg) ==
  [status |-> "error", model |-> EmptyName, msg |-> msg, tag |-> "Gemini API"]

\* the listing answers; the candidates are built
GenModels(ok, listed) ==
  /\ gem.pc = "list"
  /\ LET av == getAvailableModels(ok, listed)
         c == buildFallbackOrder(gem.model, av)
     IN gem' = IF c = <<>>
               THEN [gem EXCEPT !.pc = "done", !.available = av,
                                !.res = wrapError({})]
               ELSE [gem EXCEPT !.pc = "try", !.available = av,
                                !.candidates = c]
  /\ UNCHANGED <<sysVars, emb, sim, chk, hist, adp>>

\* one turn of "for (const candidate of candidates)": generateContent of
\* the next candidate succeeds
GenSuccess ==
  /\ gem.pc = "try"
  /\ LET c == gem.candidates[Len(gem.tried) + 1] IN
       gem' = [gem EXCEPT
                 !.pc = "done",
                 !.tried = Append(@, c),
                 !.errs = Append(@, {}),
                 !.res = [status |-> "ok", model |-> c, msg |-> {},
                          tag |-> "none"]]
  /\ UNCHANGED <<sysVars, emb, sim, chk, hist, adp>>

\* one turn of the loop: generateContent of the next candidate throws msg;
\* after a break, or after the last candidate, lastError is thrown
GenFailure(msg) ==
  /\ gem.pc = "try"
  /\ LET c == gem.candidates[Len(gem.tried) + 1]
         g == [gem EXCEPT !.tried = Append(@, c), !.errs = Append(@, msg),
                          !.lastError = <<msg>>]
     IN gem' = IF breaksLoop(msg) \/ Len(g.tried) = Len(g.candidates)
               THEN [g EXCEPT !.pc = "done",
                              !.res = wrapError(g.lastError[1])]
               ELSE g
  /\ UNCHANGED <<sysVars, emb, sim, chk, hist, adp>>

NextGemini ==
  \/ \E model \in RequestedModels : GenStart(model)
  \/ \E ok \in BOOLEAN,
        listed \in UNION {[1..k -> ListedModels] : k \in 0..MaxListed} :
       GenModels(ok, listed)
  \/ GenSuccess
  \/ \E msg \in ErrMsgs : GenFailure(msg)

SpecGemini == InitGemini /\ [][NextGemini]_vars

\* ------------------------------------------- distances and similarity
\* Numbers are in tenths: One stands for 1.0.
One == 10
\* the largest number of records a query answer holds here
MaxResults == 3
\* a raw distance of the answer: has = FALSE when the answer holds none
\* for the record (distances[i] is undefined)
Raw(has, d) == [has |-> has, d |-> d]
RawDistances ==
  {Raw(FALSE, 0)} \cup {Raw(TRUE, d) : d \in {0 - 5, 0, 3, One, One + 5}}
\* the index answers best match first
BestFirst(raw) ==
  \A i, j \in DOMAIN raw :
    (i < j /\ raw[i].has /\ raw[j].has) => raw[i].d <= raw[j].d

\* searchSimilar, the loop over docs: "distance: distances[i] || 0"
searchSimilarDocs(raw) ==
  [i \in DOMAIN raw |->
     [distance |-> IF raw[i].has /\ raw[i].d # 0 THEN raw[i].d ELSE 0]]

\* a mapping without the clamp at 1
similarityUnclamped(distance) ==
  IF distance >= 0 THEN One - distance ELSE 0

\* "result.distance >= 0 ? 1 - Math.min(result.distance, 1) : 0"
similarity(distance) ==
  IF distance >= 0 THEN One - Min(distance, One) ELSE 0

\* searchDocuments, "results.map(result => ({..., similarity}))"
searchResults(docs) ==
  [i \in DOMAIN docs |-> [similarity |-> similarity(docs[i].distance)]]

InitSim ==
  /\ Quiet
  /\ provider = "gemini"
  /\ hasKey = TRUE
  /\ UnitsIdle

\* collection.query answers inside searchSimilar
SimQuery(raw) ==
  /\ sim.pc = "idle"
  /\ BestFirst(raw)
  /\ sim' = [sim EXCEPT !.pc = "queried", !.raw = raw,
                        !.docs = searchSimilarDocs(raw)]
  /\ UNCHANGED <<sysVars, emb, gem, chk, hist, adp>>

\* searchDocuments maps what searchSimilar returned
SimMap ==
  /\ sim.pc = "queried"
  /\ sim' = [sim EXCEPT !.pc = "done", !.results = searchResults(sim.docs)]
  /\ UNCHANGED <<sysVars, emb, gem, chk, hist, adp>>

NextSim ==
  \/ \E raw \in UNION {[1..k -> RawDistances] : k \in 0..MaxResults} :
       SimQuery(raw)
  \/ SimMap

SpecSim == InitSim /\ [][NextSim]_vars

\* ------------------------------- DocumentProcessorService, followed alone
\* the texts, chunk sizes and overlaps chunkText is applied to; the overlap
\* is smaller than the chunk size, as under the defaults (200 and 1000)
MaxLen == 6
Alphabet == {"a", ".", " "}
Texts == UNION {[1..k -> Alphabet] : k \in 0..MaxLen}
ChunkSizes == {3, 5}
ChunkOverlaps == {1, 2}

\* the text "Sentence one. Sentence two. Sentence three."
ScenarioText ==
  <<"S", "e", "n", "t", "e", "n", "c", "e", " ", "o", "n", "e", ".", " ",
    "S", "e", "n", "t", "e", "n", "c", "e", " ", "t", "w", "o", ".", " ",
    "S", "e", "n", "t", "e", "n", "c", "e", " ", "t", "h", "r", "e", "e",
    ".">>
\* that text under CHUNK_SIZE=15 and CHUNK_OVERLAP=5
Scenario == <<ScenarioText, 15, 5>>
\* the calls of chunkText followed: <<text, chunkSize, chunkOverlap>>
ChunkInputs == (Texts \X ChunkSizes \X ChunkOverlaps) \cup {Scenario}

InitChunk ==
  /\ Quiet
  /\ provider = "gemini"
  /\ hasKey = TRUE
  /\ emb = NoEmb /\ gem = NoGem /\ sim = NoSim /\ hist = NoHist
  /\ adp = NoAdp
  /\ \E inp \in ChunkInputs :
       chk = [NoChk EXCEPT !.text = inp[1], !.chunkSize = inp[2],
                           !.chunkOverlap = inp[3]]

ChunkText ==
  /\ chk.pc = "idle"
  /\ chk' = [chk EXCEPT
               !.pc = "done",
               !.sentences = IF IsBlank(chk.text) THEN <<>>
                             ELSE splitIntoSentences(chk.text),
               !.chunks = chunkText(chk.text, chk.chunkSize, chk.chunkOverlap)]
  /\ UNCHANGED <<sysVars, emb, gem, sim, hist, adp>>

NextChunk == ChunkText

SpecChunk == InitChunk /\ [][NextChunk]_vars

\* ------------------------------------------- the history a backend sends
\* GeminiService.generateResponse and CustomService.generateResponse build
\* their request from the same window of the message history.
HistoryWindow == 10
\* the longest history followed
MaxHistory == 12
\* a MessageDto; the content of the message at position i is i
Message(role, content) == [role |-> role, content |-> content]
\* turn i of a conversation is the user's or the assistant's, or an error
\* entry stands in its place
RoleAt(i) == IF i % 2 = 1 THEN "user" ELSE "assistant"
Histories ==
  UNION {{[i \in 1..n |-> Message(IF i \in errs THEN "error" ELSE RoleAt(i), i)] :
            errs \in SUBSET (1..n)} : n \in 0..MaxHistory}

\* "messages.slice(-10)"
slice(messages, n) ==
  SubSeq(messages, IF Len(messages) > n THEN Len(messages) - n + 1 ELSE 1,
         Len(messages))
\* ".filter(msg => msg.role !== 'error')"
filterErrors(messages) == SelectSeq(messages, LAMBDA m : m.role # "error")

\* a window that is filled with the entries that are not errors
recentMessagesFilterFirst(messages) ==
  slice(filterErrors(messages), HistoryWindow)

\* "const recentMessages = messages.slice(-10).filter(...)"
recentMessages(messages) == filterErrors(slice(messages, HistoryWindow))

\* GeminiService: the lines of the prompt, "AI: " at its end
geminiPrompt(system, recent) ==
  (IF system THEN <<[label |-> "system", content |-> 0]>> ELSE <<>>) \o
  [i \in DOMAIN recent |->
     [label |-> IF recent[i].role = "assistant" THEN "AI" ELSE "user",
      content |-> recent[i].content]] \o
  <<[label |-> "AI", content |-> 0]>>

\* CustomService: the messages of the request body
customMessages(system, recent) ==
  (IF system THEN <<[label |-> "system", content |-> 0]>> ELSE <<>>) \o
  [i \in DOMAIN recent |->
     [label |-> recent[i].role, content |-> recent[i].content]]

InitHistory ==
  /\ Quiet
  /\ provider = "gemini"
  /\ hasKey = TRUE
  /\ emb = NoEmb /\ gem = NoGem /\ sim = NoSim /\ chk = NoChk
  /\ adp = NoAdp
  /\ \E messages \in Histories : hist = [NoHist EXCEPT !.messages = messages]

\* GeminiService.generateResponse(model, messages, systemPrompt)
GeminiGenerate(system, ok) ==
  /\ hist.pc = "idle"
  /\ LET recent == recentMessages(hist.messages) IN
       hist' = [hist EXCEPT !.pc = "done", !.llm = "gemini",
                            !.system = system, !.recent = recent,
                            !.body = geminiPrompt(system, recent),
                            !.res = IF ok THEN "ok" ELSE "error"]
  /\ UNCHANGED <<sysVars, emb, gem, sim, chk, adp>>

\* CustomService.generateResponse(model, messages, systemPrompt) on a
\* configured server
CustomGenerate(system, ok) ==
  /\ hist.pc = "idle"
  /\ LET recent == recentMessages(hist.messages) IN
       hist' = [hist EXCEPT !.pc = "done", !.llm = "custom",
                            !.system = system, !.recent = recent,
                            !.body = customMessages(system, recent),
                            !.res = IF ok THEN "ok" ELSE "error"]
  /\ UNCHANGED <<sysVars, emb, gem, sim, chk, adp>>

NextHistory ==
  \/ \E system, ok \in BOOLEAN : GeminiGenerate(system, ok)
  \/ \E system, ok \in BOOLEAN : CustomGenerate(system, ok)

SpecHistory == InitHistory /\ [][NextHistory]_vars

\* ------------------------- VectorStoreService, initialize await by await
\* Two adapter operations are followed from their first line to their
\* answer; every await of initialize and of the operation is a step.
AdapterKinds == {"add", "search", "count"}
\* the document an addDocuments call of operation o writes
FileOf(o) == IF o = "o1" THEN "f1" ELSE "f2"
\* an initialize is between its start and its end
InFlight(a) ==
  \E o \in Ops : a.ops[o].pc \in {"getCollection", "createCollection"}

InitLazy ==
  /\ enabled = TRUE
  /\ provider = "gemini"
  /\ hasKey = TRUE
  /\ backendUp \in BOOLEAN
  /\ collection = initialize(backendUp)   \* onModuleInit
  /\ store = {}
  /\ files = [f \in Files |-> "saved"]
  /\ disk = [f \in Files |-> TRUE]
  /\ uploadRes = [f \in Files |-> "saved"]
  /\ run = [f \in Files |-> NoRun]
  /\ del = [f \in Files |-> NoDel]
  /\ probe = NoProbe
  /\ chat = NoChat
  /\ emb = NoEmb /\ gem = NoGem /\ sim = NoSim /\ chk = NoChk
  /\ hist = NoHist
  /\ \E e \in BOOLEAN :
       /\ collection => e
       /\ adp = [NoAdp EXCEPT !.exists = e]

\* an adapter whose operations share one initialize
runsInitializeSingleFlight(col, inflight) == ~col /\ ~inflight

\* "if (!this.collection) { await this.initialize(); }"
runsInitialize(col, inflight) == ~col

\* an operation starts; initialize runs up to "await
\* this.client.getCollection(...)"
OpStart(o, kind) ==
  /\ adp.ops[o].pc = "idle"
  /\ adp' = [adp EXCEPT !.ops[o] =
       IF runsInitialize(collection, InFlight(adp))
       THEN [NoOp EXCEPT !.pc = "getCollection", !.kind = kind, !.ran = TRUE]
       ELSE [NoOp EXCEPT !.pc = "call", !.kind = kind]]
  /\ UNCHANGED <<sysVars, emb, gem, sim, chk, hist>>

\* getCollection answers: the collection is assigned, or the inner catch
\* goes on to "await this.client.createCollection(...)"
GetCollection(o) ==
  /\ adp.ops[o].pc = "getCollection"
  /\ IF backendUp /\ adp.exists
     THEN /\ collection' = TRUE
          /\ adp' = [adp EXCEPT !.ops[o].pc = "call"]
     ELSE /\ adp' = [adp EXCEPT !.ops[o].pc = "createCollection"]
          /\ UNCHANGED collection
  /\ UNCHANGED <<emb, gem, sim, chk, hist>>
  /\ UNCHANGED <<enabled, provider, hasKey, backendUp, store, files, disk,
                 uploadRes, run, del, probe, chat>>

\* createCollection answers: the collection is created and assigned, or
\* the call throws (backend unreachable, or the collection exists by now)
\* and the outer catch of initialize swallows the error
CreateCollection(o) ==
  /\ adp.ops[o].pc = "createCollection"
  /\ IF backendUp /\ ~adp.exists
     THEN /\ collection' = TRUE
          /\ adp' = [adp EXCEPT !.ops[o].pc = "call", !.exists = TRUE]
     ELSE /\ adp' = [adp EXCEPT !.ops[o].pc = "call"]
          /\ UNCHANGED collection
  /\ UNCHANGED <<emb, gem, sim, chk, hist>>
  /\ UNCHANGED <<enabled, provider, hasKey, backendUp, store, files, disk,
                 uploadRes, run, del, probe, chat>>

\* the operation after its lazy initialization: addDocuments throws on an
\* unset collection, searchSimilar returns nothing, getDocumentCount
\* catches the error of the call and returns 0
OpCall(o) ==
  /\ adp.ops[o].pc = "call"
  /\ LET k == adp.ops[o].kind
         ok == collection /\ backendUp
     IN \E r \in queryResults(store, TopK, NoFilter) :
          /\ store' = IF k = "add" /\ ok
                      THEN store \cup Batch(FileOf(o), 1) ELSE store
          /\ adp' = [adp EXCEPT !.ops[o] =
               [@ EXCEPT
                  !.pc = "done",
                  !.err = IF k = "add" /\ ~collection THEN "notinit"
                          ELSE IF k = "add" /\ ~backendUp THEN "call"
                          ELSE "none",
                  !.result = IF k = "search" /\ ok THEN r ELSE {},
                  !.count = IF k = "count" /\ ok THEN Cardinality(store)
                            ELSE 0]]
  /\ UNCHANGED <<emb, gem, sim, chk, hist>>
  /\ UNCHANGED <<enabled, provider, hasKey, backendUp, collection, files,
                 disk, uploadRes, run, del, probe, chat>>

\* the caller has its answer
OpReturn(o) ==
  /\ adp.ops[o].pc = "done"
  /\ adp' = [adp EXCEPT !.ops[o] = NoOp]
  /\ UNCHANGED <<sysVars, emb, gem, sim, chk, hist>>

NextLazy ==
  \/ \E o \in Ops, kind \in AdapterKinds : OpStart(o, kind)
  \/ \E o \in Ops : GetCollection(o)
  \/ \E o \in Ops : CreateCollection(o)
  \/ \E o \in Ops : OpCall(o)
  \/ \E o \in Ops : OpReturn(o)
  \/ BackendToggle

SpecLazy == InitLazy /\ [][NextLazy]_vars

\* ----------------------------------------------------------------- claims
Pending == {"extract", "embed", "store"}
Unchanged(sys) == Prompt(sys, FALSE, {})
LlmKnown == chat.llm \in {"gemini", "custom"}

\* C1: a chat turn with useRag on an enabled deployment whose retrieval
\* failed (the query embedding threw, or the store was unavailable or its
\* call failed) still reaches the LLM backend with the caller's system
\* prompt, returns no sources, and fails only if the LLM backend failed.
C1_RetrievalFailureKeepsChat ==
  chat.retrievalFailed =>
    /\ chat.useRag /\ enabled
    /\ chat.prompt = Unchanged(chat.sys)
    /\ chat.sources = {}
    /\ chat.pc = "done" =>
         /\ chat.llmOutcome # "none"
         /\ LlmKnown => chat.sent = Unchanged(chat.sys)
         /\ chat.respSources = {}
         /\ chat.res = "error" => chat.llmOutcome \in {"error", "unsupported"}

C1_Witness ==
  /\ chat.pc = "done" /\ chat.retrievalFailed /\ chat.sys = "S"
  /\ chat.res = "ok" /\ store # {}

\* C2: whatever step of the indexing run failed, uploadFile has returned
\* the saved file, as it has when the run succeeded.
C2_IndexFailureKeepsUpload ==
  \A f \in Files :
    run[f].pc \in {"failed", "done"} => uploadRes[f] = "saved"

C2_Witness ==
  \E f, g \in Files :
    /\ run[f].pc = "failed" /\ run[f].err = "mismatch"
    /\ run[g].pc = "failed" /\ run[g].err \in {"call", "notinit"}
    /\ uploadRes[f] = "saved" /\ uploadRes[g] = "saved"

\* C3: while the indexing run an upload started is still pending, the
\* upload has already returned the saved file.
C3_UploadDoesNotWait ==
  \A f \in Files : run[f].pc \in Pending => uploadRes[f] = "saved"

C3_Witness ==
  \E f \in Files :
    /\ uploadRes[f] = "saved" /\ run[f].pc = "embed"
    /\ RecsOf(store, f) = {}

\* C4: with RAG disabled no step changes the index, no indexing run and no
\* deletion calls the chunker, the embedder or the store, searchDocuments
\* returns nothing and getStats reports 0, whatever the index holds.
C4_DisabledIsNoOp ==
  [][~enabled =>
      /\ store' = store
      /\ \A f \in Files : /\ run'[f].calls = {}
                           /\ run'[f].pc \in {"none", "skipped"}
                           /\ del'[f].calls = {}
      /\ probe'.calls = {} /\ probe'.result = {} /\ probe'.count = 0]_vars

C4_Witness ==
  /\ ~enabled /\ store # {} /\ backendUp /\ collection
  /\ \E f \in Files : run[f].pc = "skipped" /\ del[f].res = "ok"
  /\ probe.op = "search" /\ RecsOf(store, probe.filter) # {}

\* C5: a chat turn calls the embedder or the store only if useRag is set
\* and RAG is enabled; otherwise the prompt sent is the caller's and the
\* response has no sources.
C5_RetrievalGate ==
  chat.pc # "idle" /\ ~(chat.useRag /\ enabled) =>
    /\ chat.calls = {}
    /\ chat.pc # "search"
    /\ chat.prompt = Unchanged(chat.sys)
    /\ chat.pc = "done" =>
         /\ LlmKnown => chat.sent = Unchanged(chat.sys)
         /\ chat.respSources = {}

C5_Witness ==
  /\ chat.pc = "done" /\ chat.res = "ok" /\ chat.hasUser
  /\ ~chat.useRag /\ enabled /\ store # {} /\ backendUp /\ collection

\* C6: the step that ends deleteFileIndex(f) without error leaves no record
\* of f (a search filtered by f returns nothing), lowers the count by the
\* number of records f had, and leaves the records of the other files.
C6_DeleteRemovesAll ==
  [][\A f \in Files :
       /\ del[f].pc \in {"get", "del"}
       /\ del'[f].pc = "finish" /\ del'[f].idxErr = "none"
       => /\ RecsOf(store', f) = {}
          /\ \A a \in searchSimilar(collection', backendUp', store', TopK, f) :
               a.result = {}
          /\ Cardinality(store') =
               Cardinality(store) - Cardinality(RecsOf(store, f))
          /\ \A g \in Files \ {f} : RecsOf(store', g) = RecsOf(store, g)]_vars

C6_Witness ==
  \E f \in Files :
    /\ del[f].pc = "finish" /\ del[f].idxErr = "none"
    /\ Cardinality(del[f].ids) = MaxChunks
    /\ \E g \in Files \ {f} : RecsOf(store, g) # {}

\* C7: a deleteFile whose index cleanup threw still completes without
\* raising, with the physical file and the metadata record removed.
C7_DeleteIsBestEffort ==
  \A f \in Files :
    del[f].pc = "done" /\ del[f].idxErr # "none" =>
      del[f].res = "ok" /\ files[f] = "deleted" /\ ~disk[f]

C7_Witness ==
  \E f \in Files :
    /\ del[f].pc = "done" /\ del[f].idxErr \in {"notinit", "call"}
    /\ RecsOf(store, f) # {}

\* C8: searchSimilar and getDocumentCount never raise; when the collection
\* is not available or the backend call fails they answer [] and 0.
C8_QueryCountNeverThrow ==
  probe.vs.op \in {"query", "count"} =>
    /\ ~probe.vs.raised
    /\ ~probe.vs.ready \/ ~probe.vs.up =>
         probe.vs.result = {} /\ probe.vs.count = 0

C8_Witness ==
  /\ probe.vs.op = "count" /\ probe.vs.ready /\ ~probe.vs.up
  /\ store # {}

\* C9 as stated: after a failed initialization no adapter operation raises.
C9_NoOperationRaises ==
  /\ \A f \in Files : run[f].err # "notinit" /\ del[f].idxErr # "notinit"
  /\ probe.vs.op # "none" /\ ~probe.vs.ready => ~probe.vs.raised

\* C9 (amended): an adapter operation that finds the collection still unset
\* after its own initialization attempt answers [] (searchSimilar) or 0
\* (getDocumentCount) without raising, and raises without writing anything
\* when it is addDocuments or deleteDocumentsByFileId.
C9_UnavailableCollection ==
  [][/\ \A f \in Files :
          run[f].pc = "store" /\ run'[f].pc # "store" /\ ~collection'
          => /\ run'[f].pc = "failed" /\ run'[f].err = "notinit"
             /\ store' = store
     /\ \A f \in Files :
          del[f].pc = "get" /\ del'[f].pc # "get" /\ ~collection'
          => del'[f].idxErr = "notinit" /\ store' = store
     /\ probe'.vs.op \in {"query", "count"} /\ ~probe'.vs.ready
          => /\ ~probe'.vs.raised
             /\ probe'.vs.result = {} /\ probe'.vs.count = 0]_vars

C9_Witness ==
  /\ \E f \in Files : run[f].err = "notinit" /\ del[f].idxErr = "notinit"
  /\ probe.vs.op = "query" /\ ~probe.vs.ready

\* C10: an indexing run whose embedder returned a number of vectors other
\* than its number of chunks has failed with the mismatch error, has not
\* called the store and has no record in the index; the step that detects
\* the mismatch leaves the index as it was.
C10_MismatchAborts ==
  [][\A f \in Files :
       run'[f].m >= 0 /\ run'[f].m # run'[f].n
       => /\ run'[f].pc = "failed" /\ run'[f].err = "mismatch"
          /\ "store" \notin run'[f].calls
          /\ RecsOf(store', f) = {}
          /\ run[f].pc = "embed" => store' = store]_vars

C10_Witness ==
  \E f \in Files :
    /\ run[f].err = "mismatch" /\ run[f].m > 0
    /\ \E g \in Files \ {f} : RecsOf(store, g) # {}

\* C11: the step of an indexing run of n chunks that ends the store write
\* adds exactly n records, and for every i in 0..n-1 one of them holds the
\* text of chunk i, the vector computed from that text, chunkIndex i and
\* the id (fileId, i).
C11_OrderPreserved ==
  [][\A f \in Files :
       (run[f].pc = "store" /\ run'[f].pc = "done") =>
         LET written == store' \ store IN
           /\ Cardinality(written) = run[f].n
           /\ \A i \in 0..(run[f].n - 1) :
                \E r \in written :
                  /\ r.id = <<f, i>>
                  /\ r.fileId = f /\ r.chunkIndex = i
                  /\ r.text = i
                  /\ r.vec.of = i /\ r.vec.kind \in {"model", "fallback"}]_vars

C11_Witness ==
  \E f \in Files :
    /\ run[f].pc = "done" /\ "store" \in run[f].calls
    /\ run[f].n = MaxChunks
    /\ Cardinality(RecsOf(store, f)) = MaxChunks

\* C12: under the configured provider all vectors held by the collection
\* have one dimension, and a query vector has the dimension of the records
\* it was compared with.
C12_UniformDimension ==
  /\ \A r1, r2 \in store :
       Dim(provider, r1.vec) = Dim(provider, r2.vec)
  /\ (probe.op = "search" /\ probe.vs.op = "query") =>
       \A r \in probe.vs.result :
         Dim(provider, probe.q) = Dim(provider, r.vec)

\* C13: with gemini and credentials a request that gets no answer never
\* fails the embedding call: the 384-wide fallback vector of the same text
\* takes its place, and the indexing run goes on to the store write (the
\* search goes on to the store query); with openai or huggingface the same
\* failure ends the call with an error.
C13_GeminiFallback ==
  /\ (provider = "gemini" /\ hasKey) =>
       /\ \A f \in Files :
            /\ run[f].err # "embed"
            /\ run[f].netfail =>
                 /\ \/ run[f].pc \in {"store", "done"}
                    \/ run[f].pc = "failed" /\ "store" \in run[f].calls
                 /\ Len(run[f].vecs) = run[f].n
                 /\ \E i \in 1..run[f].n :
                      /\ run[f].vecs[i] = fallbackEmbedding(i - 1)
                      /\ Dim(provider, run[f].vecs[i]) = 384
       /\ (probe.op = "search" /\ probe.netfail) =>
            /\ probe.q = fallbackEmbedding(QueryText)
            /\ "store" \in probe.calls
  /\ provider # "gemini" =>
       /\ \A f \in Files :
            run[f].netfail => run[f].pc = "failed" /\ run[f].err = "embed"
       /\ (probe.op = "search" /\ probe.netfail) =>
            probe.calls = {"embedder"} /\ probe.q = NoVec

C13_Witness ==
  /\ provider = "gemini" /\ hasKey
  /\ run["f1"].pc = "done" /\ run["f1"].netfail
  /\ run["f1"].n = MaxChunks
  /\ \A i \in 1..MaxChunks : run["f1"].vecs[i].kind = "fallback"
  /\ \A r \in RecsOf(store, "f1") : r.vec = fallbackEmbedding(r.chunkIndex)
  /\ Cardinality(RecsOf(store, "f1")) = MaxChunks

\* C14: an embedder call that received a malformed answer (no vector, or
\* an empty one) ends with an error.
C14_MalformedIsError ==
  (emb.pc = "done" /\ emb.malformed) => ~emb.out.ok

\* C15: an embedder call under huggingface issues at most two requests.
C15_AtMostTwoRequests ==
  provider = "huggingface" => emb.requests <= 2

NoDup(seq) == \A i, j \in DOMAIN seq : i # j => seq[i] # seq[j]
FirstPos(seq, x) ==
  CHOOSE i \in DOMAIN seq : seq[i] = x /\ \A j \in 1..(i - 1) : seq[j] # x
Failed(k) == gem.errs[k] # {}
NonRetriable(msg) == ~isRetriableError(msg) /\ ~isNotFound(msg)

\* C16: the candidates of generateResponse are the non-empty names among
\* requested model, defaults, available models, each once, in the order of
\* their first occurrence in that list; they are attempted in that order,
\* each at most once, and none after a success; a success answers with
\* stats.model = the candidate that succeeded; when every candidate failed
\* with a retriable or not-found error, all were attempted and the error
\* of the last one is thrown.
C16_FallbackOrder ==
  gem.pc \in {"try", "done"} =>
    LET c == gem.candidates
        o == orderedNames(gem.model, gem.available)
        t == gem.tried
    IN /\ NoDup(c)
       /\ {c[i] : i \in DOMAIN c} = {o[j] : j \in DOMAIN o} \ {EmptyName}
       /\ \A a, b \in DOMAIN c :
            a < b => FirstPos(o, c[a]) < FirstPos(o, c[b])
       /\ toFlatName(gem.model) # EmptyName => c[1] = toFlatName(gem.model)
       /\ Len(t) <= Len(c) /\ t = SubSeq(c, 1, Len(t))
       /\ \A k \in 1..(Len(t) - 1) : Failed(k)
       /\ gem.res.status = "ok" =>
            /\ gem.pc = "done" /\ ~Failed(Len(t))
            /\ gem.res.model = t[Len(t)]
       /\ (/\ gem.pc = "done"
           /\ \A k \in DOMAIN t : Failed(k) /\ ~NonRetriable(gem.errs[k])) =>
            /\ t = c
            /\ gem.res.status = "error"
            /\ gem.res.msg = gem.errs[Len(t)]

C16_Witness ==
  /\ gem.pc = "done" /\ gem.res.status = "ok"
  /\ Len(gem.tried) >= 2 /\ Len(gem.tried) < Len(gem.candidates)
  /\ Len(gem.candidates) < Len(orderedNames(gem.model, gem.available))
  /\ gem.candidates[1] = <<"gemini-pro">>

\* C17: a candidate that fails with an error that is neither retriable nor
\* not-found is the last one attempted, and the call ends with that error
\* under the provider's tag.
C17_NonRetriableAborts ==
  \A k \in DOMAIN gem.errs :
    (Failed(k) /\ NonRetriable(gem.errs[k])) =>
      /\ k = Len(gem.tried)
      /\ gem.pc = "done"
      /\ gem.res.status = "error"
      /\ gem.res.msg = gem.errs[k]
      /\ gem.res.tag = "Gemini API"

C17_Witness ==
  /\ gem.pc = "done" /\ gem.res.status = "error"
  /\ Len(gem.tried) >= 2 /\ Len(gem.tried) < Len(gem.candidates)
  /\ NonRetriable(gem.errs[Len(gem.tried)])

\* C18 as stated: every SearchResult has a similarity in [0,1] equal to
\* 1 - min(distance, 1) for the raw distance of its record, a smaller
\* distance never gets a smaller similarity, and the results are in
\* non-increasing similarity order.
C18_OneMinusDistance ==
  sim.pc = "done" =>
    /\ \A i \in DOMAIN sim.results :
         /\ sim.results[i].similarity \in 0..One
         /\ sim.raw[i].has =>
              sim.results[i].similarity = One - Min(sim.raw[i].d, One)
    /\ \A i, j \in DOMAIN sim.results :
         (sim.raw[i].has /\ sim.raw[j].has /\ sim.raw[i].d < sim.raw[j].d)
           => sim.results[i].similarity >= sim.results[j].similarity
    /\ \A i, j \in DOMAIN sim.results :
         i < j => sim.results[i].similarity >= sim.results[j].similarity

\* C18, amended: every SearchResult has a similarity in [0,1]; it is
\* 1 - min(distance, 1) when the raw distance is not negative, 0 when it
\* is negative, and 1 when the answer holds no distance for the record;
\* among records with distances that are not negative a smaller distance
\* never gets a smaller similarity, and an answer that holds only such
\* distances gives results in non-increasing similarity order.
C18_SimilarityMapping ==
  sim.pc = "done" =>
    LET NonNeg(i) == sim.raw[i].has /\ sim.raw[i].d >= 0 IN
    /\ Len(sim.results) = Len(sim.raw)
    /\ \A i \in DOMAIN sim.results :
         /\ sim.results[i].similarity \in 0..One
         /\ NonNeg(i) =>
              sim.results[i].similarity = One - Min(sim.raw[i].d, One)
         /\ (sim.raw[i].has /\ sim.raw[i].d < 0) =>
              sim.results[i].similarity = 0
         /\ ~sim.raw[i].has => sim.results[i].similarity = One
    /\ \A i, j \in DOMAIN sim.results :
         (NonNeg(i) /\ NonNeg(j) /\ sim.raw[i].d < sim.raw[j].d)
           => sim.results[i].similarity >= sim.results[j].similarity
    /\ (\A i \in DOMAIN sim.results : NonNeg(i)) =>
         \A i, j \in DOMAIN sim.results :
           i < j => sim.results[i].similarity >= sim.results[j].similarity

C18_Witness ==
  /\ sim.pc = "done" /\ Len(sim.results) = MaxResults
  /\ \E i, j, k \in DOMAIN sim.raw :
       /\ sim.raw[i].has /\ sim.raw[i].d < 0
       /\ sim.raw[j].has /\ sim.raw[j].d > 0 /\ sim.raw[j].d < One
       /\ sim.raw[k].has /\ sim.raw[k].d > One

NonSpace(x) == SelectSeq(x, LAMBDA c : c \notin SpaceChars)
\* the content of chunk i without the overlap it began with, spaces aside
Portion(c) ==
  SubSeq(NonSpace(c.content), Len(NonSpace(c.carried)) + 1,
         Len(NonSpace(c.content)))
RECURSIVE Portions(_, _)
Portions(chunks, i) ==
  IF i > Len(chunks) THEN <<>>
  ELSE Portion(chunks[i]) \o Portions(chunks, i + 1)
IsPrefix(x, y) == Len(x) <= Len(y) /\ x = SubSeq(y, 1, Len(x))
IsSuffix(x, y) ==
  Len(x) <= Len(y) /\ x = SubSeq(y, Len(y) - Len(x) + 1, Len(y))

\* C19: for a text that is not blank, the chunks of chunkText without
\* their overlaps, put together in chunkIndex order, are the text (spaces
\* aside): nothing is lost and nothing appears twice.
C19_ChunksCoverText ==
  (chk.pc = "done" /\ ~IsBlank(chk.text)) =>
    Portions(chk.chunks, 1) = NonSpace(chk.text)

\* C20: the content of chunk i+1 begins with the overlap carried over from
\* chunk i, that overlap is a suffix of the content of chunk i, and it is
\* at most chunkOverlap characters long.
C20_OverlapWithinWindow ==
  chk.pc = "done" =>
    \A i \in 1..(Len(chk.chunks) - 1) :
      LET o == chk.chunks[i + 1].carried IN
        /\ IsPrefix(trim(o), chk.chunks[i + 1].content)
        /\ IsSuffix(trim(o), chk.chunks[i].content)
        /\ Len(o) <= chk.chunkOverlap

C22_ThreeSentences ==
  (chk.pc = "done" /\ <<chk.text, chk.chunkSize, chk.chunkOverlap>> = Scenario)
    => /\ Len(chk.chunks) > 1
       /\ \A i \in DOMAIN chk.chunks :
            Len(chk.chunks[i].content) <= chk.chunkSize + chk.chunkOverlap
       /\ \A i \in 1..(Len(chk.chunks) - 1) :
            \E n \in 1..Len(chk.chunks[i + 1].content) :
              IsSuffix(SubSeq(chk.chunks[i + 1].content, 1, n),
                       chk.chunks[i].content)

\* sentences k..m joined by single spaces
RECURSIVE Joined(_, _, _)
Joined(sentences, k, m) ==
  IF k > m THEN <<>>
  ELSE IF k = m THEN sentences[k]
  ELSE sentences[k] \o <<" ">> \o Joined(sentences, k + 1, m)

\* chunks i.. are, one after the other, the overlap they carried followed
\* by the sentences from k on, every sentence in exactly one chunk
RECURSIVE WholeSentences(_, _, _, _)
WholeSentences(chunks, sentences, i, k) ==
  IF i > Len(chunks) THEN k = Len(sentences) + 1
  ELSE \E m \in k..Len(sentences) :
         /\ chunks[i].content =
              trim(chunks[i].carried \o Joined(sentences, k, m))
         /\ WholeSentences(chunks, sentences, i + 1, m + 1)

\* x occurs in y
Occurs(x, y) ==
  \E a \in 0..(Len(y) - Len(x)) : SubSeq(y, a + 1, a + Len(x)) = x

\* a letter: neither white space nor a mark
IsLetter(c) == c \notin SpaceChars \cup PunctChars
\* chunk i+1 begins inside a word of chunk i
BeginsMidWord(chunks, i) ==
  LET prev == chunks[i].content
      o == trim(chunks[i + 1].carried)
  IN /\ o # <<>> /\ Len(o) < Len(prev) /\ IsSuffix(o, prev)
     /\ IsLetter(o[1]) /\ IsLetter(prev[Len(prev) - Len(o)])

\* C27 as stated: the content of every chunk, its overlap included, begins
\* with a whole sentence of the text and ends with a whole sentence, no
\* chunk begins inside a word, and a sentence longer than chunkSize is
\* whole in some chunk.
C27_SentenceBoundaries ==
  (chk.pc = "done" /\ ~IsBlank(chk.text)) =>
    /\ \A i \in DOMAIN chk.chunks :
         /\ \E k \in DOMAIN chk.sentences :
              IsPrefix(trim(chk.sentences[k]), chk.chunks[i].content)
         /\ \E k \in DOMAIN chk.sentences :
              IsSuffix(trim(chk.sentences[k]), chk.chunks[i].content)
    /\ \A i \in 1..(Len(chk.chunks) - 1) : ~BeginsMidWord(chk.chunks, i)
    /\ \A k \in DOMAIN chk.sentences :
         Len(chk.sentences[k]) > chk.chunkSize =>
           \E i \in DOMAIN chk.chunks :
             Occurs(trim(chk.sentences[k]), chk.chunks[i].content)

\* C27, amended: the content of every chunk is the overlap it carried from
\* the chunk before it (none for the first chunk) followed by whole
\* sentences of splitIntoSentences, each sentence in one chunk, in order;
\* so every chunk ends with a whole sentence, the first chunk begins with
\* the first sentence, and a sentence longer than chunkSize is whole in
\* one chunk. The overlap is text the chunk before ends with; it may begin
\* inside a word.
C27_WholeSentences ==
  (chk.pc = "done" /\ ~IsBlank(chk.text)) =>
    /\ WholeSentences(chk.chunks, chk.sentences, 1, 1)
    /\ chk.chunks[1].carried = <<>>
    /\ \A i \in 1..(Len(chk.chunks) - 1) :
         IsSuffix(trim(chk.chunks[i + 1].carried), chk.chunks[i].content)
    /\ \A k \in DOMAIN chk.sentences :
         Len(chk.sentences[k]) > chk.chunkSize =>
           \E i \in DOMAIN chk.chunks :
             Occurs(trim(chk.sentences[k]), chk.chunks[i].content)

C27_Witness ==
  /\ chk.pc = "done" /\ Len(chk.chunks) >= 3
  /\ \E i \in 1..(Len(chk.chunks) - 1) : BeginsMidWord(chk.chunks, i)
  /\ \E k \in DOMAIN chk.sentences : Len(chk.sentences[k]) > chk.chunkSize

\* C28: startChar and endChar of every chunk are offsets into the text,
\* 0 <= startChar <= endChar <= |text|, and the characters of the text
\* from startChar up to endChar (excluded) are the content of the chunk,
\* spaces aside.
C28_OffsetsIntoText ==
  chk.pc = "done" =>
    \A i \in DOMAIN chk.chunks :
      LET c == chk.chunks[i] IN
        /\ 0 <= c.startChar /\ c.startChar <= c.endChar
        /\ c.endChar <= Len(chk.text)
        /\ NonSpace(SubSeq(chk.text, c.startChar + 1, c.endChar)) =
             NonSpace(c.content)

\* the loop went on to the next candidate after candidate k failed
WentOn(k) == Len(gem.tried) > k \/ (Len(gem.tried) = k /\ gem.pc = "try")

RECURSIVE IsSubsequence(_, _)
IsSubsequence(x, y) ==
  IF x = <<>> THEN TRUE
  ELSE IF y = <<>> THEN FALSE
  ELSE IF Head(x) = Head(y) THEN IsSubsequence(Tail(x), Tail(y))
  ELSE IsSubsequence(x, Tail(y))
\* the messages of the request body, the system message and the closing
\* "AI: " aside
SentContents ==
  LET b == SelectSeq(hist.body, LAMBDA m : m.content # 0)
  IN [i \in DOMAIN b |-> b[i].content]
Contents(seq) == [i \in DOMAIN seq |-> seq[i].content]

\* C29 as stated: the messages a backend sends are in the order of the
\* history, none has role error, there are at most 10, and when the
\* history holds at least 10 messages that are no errors, the 10 most
\* recent of those are sent.
C29_TenMostRecentNonErrors ==
  hist.pc = "done" =>
    LET good == filterErrors(hist.messages) IN
    /\ IsSubsequence(hist.recent, hist.messages)
    /\ SentContents = Contents(hist.recent)
    /\ \A i \in DOMAIN hist.recent : hist.recent[i].role # "error"
    /\ Len(hist.recent) <= HistoryWindow
    /\ Len(good) >= HistoryWindow =>
         hist.recent = SubSeq(good, Len(good) - HistoryWindow + 1, Len(good))

\* C29, amended: the messages a backend sends are those of the last 10
\* entries of the history that are no errors, in the order of the history:
\* none has role error and there are at most 10; they are the 10 most
\* recent messages that are no errors only when none of the last 10
\* entries is an error, and fewer than 10 are sent otherwise, however many
\* older messages the history holds.
C29_LastTenWithoutErrors ==
  hist.pc = "done" =>
    LET n == Len(hist.messages)
        from == IF n > HistoryWindow THEN n - HistoryWindow + 1 ELSE 1
        errors == {i \in from..n : hist.messages[i].role = "error"}
    IN /\ IsSubsequence(hist.recent, hist.messages)
       /\ SentContents = Contents(hist.recent)
       /\ \A i \in DOMAIN hist.recent : hist.recent[i].role # "error"
       /\ Len(hist.recent) = (n - from + 1) - Cardinality(errors)
       /\ \A i \in from..n :
            i \notin errors =>
              \E j \in DOMAIN hist.recent : hist.recent[j] = hist.messages[i]
       /\ \A j \in DOMAIN hist.recent : hist.recent[j].content >= from

C29_Witness ==
  /\ hist.pc = "done" /\ hist.system
  /\ Len(filterErrors(hist.messages)) >= HistoryWindow
  /\ Len(hist.recent) < HistoryWindow - 1
  /\ hist.messages[Len(hist.messages)].role # "error"

\* C23: once deleteFile(f) has completed with its index cleanup done and no
\* indexing run of f is pending, the index holds no record of f.
C23_NoOrphanRecords ==
  \A f \in Files :
    (/\ enabled
     /\ del[f].pc = "done" /\ del[f].res = "ok" /\ del[f].idxErr = "none"
     /\ run[f].pc \notin Pending)
    => RecsOf(store, f) = {}

\* C30: the indexing run of a document whose extracted text is blank gets
\* zero chunks from the chunker and ends there without error: it calls
\* neither the embedder nor the store, then or later, and the step leaves
\* the index as it was.
C30_BlankTextIndexesNothing ==
  [][\A f \in Files :
       run'[f].blank =>
         /\ run'[f].n = 0
         /\ run'[f].pc = "done" /\ run'[f].err = "none"
         /\ run'[f].calls = {"chunker"}
         /\ uploadRes'[f] = "saved"
         /\ ~run[f].blank => store' = store]_vars

C30_Witness ==
  \E f \in Files :
    /\ run[f].blank /\ run[f].pc = "done" /\ enabled
    /\ store # {} /\ RecsOf(store, f) = {}

\* C25: when the collection is unset (initialize failed when the module
\* started or on an earlier call) and the backend is reachable, a call of
\* addDocuments, searchSimilar, deleteDocumentsByFileId or getDocumentCount
\* runs initialize, leaves the collection set, and does its work against
\* the collection: the records are added, the query answers from the index,
\* the ids of the file are fetched, the count is that of the index.
C25_InitFailureNotSticky ==
  [][(~collection /\ backendUp) =>
      /\ \A f \in Files :
           (run[f].pc = "store" /\ run'[f].pc # "store") =>
             /\ collection' /\ run'[f].pc = "done"
             /\ Cardinality(RecsOf(store', f)) = run[f].n
      /\ \A f \in Files :
           (del[f].pc = "get" /\ del'[f].pc # "get") =>
             /\ collection' /\ del'[f].idxErr = "none"
             /\ del'[f].ids = RecsOf(store, f)
      /\ (probe' # probe /\ probe'.vs.op = "query") =>
           /\ collection' /\ probe'.vs.ready /\ ~probe'.vs.raised
           /\ probe'.result \in queryResults(store, TopK, probe'.filter)
      /\ (probe' # probe /\ probe'.vs.op = "count") =>
           /\ collection' /\ probe'.vs.ready
           /\ probe'.count = Cardinality(store)]_vars

C25_Witness ==
  /\ \E f \in Files : del[f].pc = "done" /\ del[f].idxErr = "notinit"
  /\ collection /\ backendUp
  /\ probe.op = "stats" /\ probe.vs.ready /\ probe.count > 0

\* C24: an adapter operation that starts while the collection is unset
\* runs initialize, whether or not another operation is inside initialize
\* at that moment: nothing makes the first-use initialization single.
C24_NoSingleFlight ==
  [][\A o \in Ops :
       (adp.ops[o].pc = "idle" /\ adp'.ops[o].pc # "idle" /\ ~collection)
         => adp'.ops[o].pc = "getCollection" /\ adp'.ops[o].ran]_vars

C24_Witness ==
  /\ ~collection /\ backendUp /\ ~adp.exists
  /\ \A o \in Ops : adp.ops[o].kind = "add"
                    /\ adp.ops[o].pc = "createCollection"
====
